---- MODULE Spec2Model ----
(***************************************************************************)
(* A model of the greeting application: the ConfigManager                  *)
(* (src/src/config_manager.py), the GreetingManager                        *)
(* (src/src/greeting_manager.py) and the menu handlers (src/main.py).      *)
(*                                                                         *)
(* Representation.  A Python str is a sequence of tokens, each token an    *)
(* atomic piece of text: "Hello, {name}!" is <<"Hello, ", "{name}", "!">>, *)
(* the language code "ES" is <<"E", "S">>, the empty str is <<>>.  A       *)
(* Python value is a tagged record: a str, a bool, None, or a dict (with   *)
(* its keys in insertion order).  Mutable dicts that are shared by         *)
(* reference live in the heap and are named by an object id.               *)
(***************************************************************************)
EXTENDS Integers, Sequences, FiniteSets, TLC

VARIABLES
    _config,        \* ConfigManager._config: the loaded document, or None
    file,           \* the configuration file at ConfigManager.config_path
    stats,          \* GreetingManager.stats (language_usage is a reference)
    heap,           \* the dict objects reachable from stats
    history,        \* the greeting history
    now,            \* the wall clock, in ticks of 0.2 s
    returned,       \* the record the last get_statistics() returned
    atReturn,       \* what that record read when it was returned
    last            \* the last call made and its outcome; for get_statistics
                    \* also what the call before it returned, when that call
                    \* was get_statistics too (before)

vars == <<_config, file, stats, heap, history, now, returned, atReturn, last>>

----------------------------------------------------------------------------
(* Bounds *)

MaxCalls == 3       \* successful greeting calls in one session
MaxNow == 2         \* clock ticks in one session

----------------------------------------------------------------------------
(* Python values *)

S(s) == [tag |-> "str", val |-> s]
B(b) == [tag |-> "bool", val |-> b]
None == [tag |-> "none"]
M(keys, f) == [tag |-> "map", keys |-> keys, val |-> f]

\* a dict literal: the pairs <<key, value>> in insertion order
Dict(pairs) ==
    M([i \in 1..Len(pairs) |-> pairs[i][1]],
      [k \in {pairs[i][1] : i \in 1..Len(pairs)} |->
          pairs[CHOOSE i \in 1..Len(pairs) : pairs[i][1] = k][2]])

\* bool(value) is False
Falsy(v) ==
    \/ v.tag = "none"
    \/ v.tag = "bool" /\ ~v.val
    \/ v.tag = "str" /\ v.val = <<>>
    \/ v.tag = "map" /\ v.keys = <<>>

\* str(value), as an f-string or str.format renders it
Text(v) ==
    CASE v.tag = "str" -> v.val
      [] v.tag = "none" -> <<"None">>
      [] v.tag = "bool" -> IF v.val THEN <<"True">> ELSE <<"False">>
      [] OTHER -> <<"{...}">>

\* str.lower(): every cased character to lowercase, the rest unchanged
LowerChar(c) ==
    CASE c = "E" -> "e"
      [] c = "S" -> "s"
      [] c = "F" -> "f"
      [] c = "R" -> "r"
      [] c = "X" -> "x"
      [] OTHER -> c

\* lower that leaves the text as it is
lower_unchanged(s) == s

lower(s) == [i \in 1..Len(s) |-> LowerChar(s[i])]

\* str.strip(): leading and trailing whitespace removed
RECURSIVE lstrip(_)
lstrip(s) == IF s # <<>> /\ Head(s) = " " THEN lstrip(Tail(s)) ELSE s

RECURSIVE rstrip(_)
rstrip(s) ==
    IF s # <<>> /\ s[Len(s)] = " " THEN rstrip(SubSeq(s, 1, Len(s) - 1)) ELSE s

strip(s) == rstrip(lstrip(s))

\* str.split('.')
RECURSIVE split(_)
split(s) ==
    IF \E i \in 1..Len(s) : s[i] = "."
    THEN LET i == CHOOSE j \in 1..Len(s) :
                      s[j] = "." /\ \A h \in 1..(j - 1) : s[h] # "."
         IN  <<SubSeq(s, 1, i - 1)>> \o split(SubSeq(s, i + 1, Len(s)))
    ELSE <<s>>

\* join taking the list from its end
RECURSIVE join_reversed(_)
join_reversed(list) ==
    IF list = <<>> THEN <<>>
    ELSE IF Len(list) = 1 THEN list[1]
    ELSE join_reversed(Tail(list)) \o <<", ">> \o list[1]

\* ', '.join(list)
RECURSIVE join(_)
join(list) ==
    IF list = <<>> THEN <<>>
    ELSE IF Len(list) = 1 THEN list[1]
    ELSE list[1] \o <<", ">> \o join(Tail(list))

\* template.format(name=name): the {name} field replaced by str(name); a
\* field of another name is a KeyError
RECURSIVE format(_, _)
format(template, name) ==
    IF template = <<>> THEN <<>>
    ELSE IF Head(template) = "{name}"
         THEN Text(name) \o format(Tail(template), name)
         ELSE <<Head(template)>> \o format(Tail(template), name)

formatRaises(template) == \E i \in 1..Len(template) : template[i] = "{user}"

----------------------------------------------------------------------------
(* The configuration file and its documents *)

K(word) == <<word>>

HelloTemplate == <<"Hello, ", "{name}", "!">>

es == <<"e", "s">>
fr == <<"f", "r">>

TimeBased(enabled) ==
    Dict(<< <<K("enabled"), B(enabled)>>,
            <<K("morning"), S(<<"Good morning, ", "{name}", "!">>)>>,
            <<K("afternoon"), S(<<"Good afternoon, ", "{name}", "!">>)>>,
            <<K("evening"), S(<<"Good evening, ", "{name}", "!">>)>>,
            <<K("night"), S(<<"Good night, ", "{name}", "!">>)>> >>)

\* the document of the integration tests, with two of its languages
FullDoc ==
    Dict(<< <<K("greetings"),
              Dict(<< <<K("default_name"), S(<<"World">>)>>,
                      <<K("languages"),
                        Dict(<< <<fr, S(<<"Bonjour, ", "{name}", "!">>)>>,
                                <<es, S(<<"Hola, ", "{name}", "!">>)>> >>)>>,
                      <<K("time_based"), TimeBased(TRUE)>> >>)>> >>)

\* another default name, one language, time-based greetings switched off
QuietDoc ==
    Dict(<< <<K("greetings"),
              Dict(<< <<K("default_name"), S(<<"Universe">>)>>,
                      <<K("languages"),
                        Dict(<< <<es, S(<<"Hola, ", "{name}", "!">>)>> >>)>>,
                      <<K("time_based"), TimeBased(FALSE)>> >>)>> >>)

\* documents of another shape than the engine expects: no greetings section
BareDoc ==
    Dict(<< <<K("app"), Dict(<< <<K("name"), S(<<"Hello World">>)>> >>)>> >>)

\* greetings.languages a string, not a mapping
ScalarLanguagesDoc ==
    Dict(<< <<K("greetings"),
              Dict(<< <<K("default_name"), S(<<"World">>)>>,
                      <<K("languages"),
                        S(<<"e", "s", ",", " ", "f", "r">>)>>,
                      <<K("time_based"), TimeBased(TRUE)>> >>)>> >>)

\* greetings.languages with no value (null)
NullLanguagesDoc ==
    Dict(<< <<K("greetings"),
              Dict(<< <<K("default_name"), S(<<"World">>)>>,
                      <<K("languages"), None>>,
                      <<K("time_based"), TimeBased(TRUE)>> >>)>> >>)

\* time-based greetings enabled, no template for any slot, no languages
NoSlotsDoc ==
    Dict(<< <<K("greetings"),
              Dict(<< <<K("default_name"), S(<<"World">>)>>,
                      <<K("time_based"),
                        Dict(<< <<K("enabled"), B(TRUE)>> >>)>> >>)>> >>)

\* what the file holds: nothing (no file), or a YAML text
Missing == [exists |-> FALSE, yaml |-> ""]
Yaml(text) == [exists |-> TRUE, yaml |-> text]

YamlTexts == {"full", "quiet", "empty"}

ShapeTexts == {"bare", "scalar_languages", "null_languages", "no_slots"}

\* yaml.safe_load: the document a YAML text denotes; an empty text is None
safe_load(text) ==
    CASE text = "full" -> FullDoc
      [] text = "quiet" -> QuietDoc
      [] text = "bare" -> BareDoc
      [] text = "scalar_languages" -> ScalarLanguagesDoc
      [] text = "null_languages" -> NullLanguagesDoc
      [] text = "no_slots" -> NoSlotsDoc
      [] OTHER -> None

----------------------------------------------------------------------------
(* ConfigManager: cm is the manager object, [_config, file]; a call yields *)
(* what it raised and the object after the call.                           *)

NoError == ""

_load_config(cm) ==
    IF ~cm.file.exists
    THEN [raised |-> "FileNotFoundError", cm |-> cm]
    ELSE [raised |-> NoError,
          cm |-> [cm EXCEPT !._config = safe_load(cm.file.yaml)]]

\* the document is cm._config of the object yielded
get_config(cm) ==
    IF cm._config = None
    THEN _load_config(cm)
    ELSE [raised |-> NoError, cm |-> cm]

\* lines 72-82: value[k] for each k of keys in turn; a KeyError or a
\* TypeError on the way gives the default
RECURSIVE Traverse(_, _, _)
Traverse(value, keys, default) ==
    IF keys = <<>> THEN value
    ELSE IF value.tag = "map" /\ Head(keys) \in DOMAIN value.val
         THEN Traverse(value.val[Head(keys)], Tail(keys), default)
         ELSE default

\* lines 70-82, with config the outcome of get_config()
get_from(config, key, default) ==
    IF config.raised # NoError
    THEN [raised |-> config.raised, value |-> None, cm |-> config.cm]
    ELSE [raised |-> NoError,
          value |-> Traverse(config.cm._config, split(key), default),
          cm |-> config.cm]

get(cm, key, default) == get_from(get_config(cm), key, default)

reload_config(cm) == _load_config([cm EXCEPT !._config = None])

----------------------------------------------------------------------------
(* The clock.  datetime.now() reads the wall clock: t ticks of 0.2 s since *)
(* the start of the run, and the local hour of the day.                    *)

\* datetime.isoformat() and datetime.fromisoformat()
isoformat(t) == [tag |-> "isostr", val |-> t]
fromisoformat(text) == text.val

\* round(ticks * 0.2 / 60, 2), in hundredths of a minute: ticks / 3 to the
\* nearest integer (a third is never a tie)
session_duration_minutes(ticks) == (2 * ticks + 3) \div 6

Hours == 0..23

----------------------------------------------------------------------------
(* GreetingManager: self is the manager object,                            *)
(* [config, stats, heap, history]; a call yields what it raised or         *)
(* returned and the object after the call.  An operation that reads the    *)
(* configuration is written as a chain: each link takes what the lines     *)
(* before it have read.                                                    *)

LanguageUsage == "language_usage#1"     \* the dict made at line 31

Raise(error, message, self) ==
    [raised |-> error, value |-> S(message), self |-> self]

Return(value, self) == [raised |-> NoError, value |-> value, self |-> self]

__init__(cm, t) ==
    [config |-> cm,
     stats |-> [total_greetings |-> 0,
                standard_greetings |-> 0,
                multilang_greetings |-> 0,
                time_based_greetings |-> 0,
                custom_messages |-> 0,
                language_usage |-> LanguageUsage,
                session_start |-> isoformat(t)],
     heap |-> [o \in {LanguageUsage} |-> <<>>],
     history |-> <<>>]

\* _update_stats with total_greetings counted twice
_update_stats_total_twice(st, greeting_type) ==
    IF greeting_type \in DOMAIN st
    THEN [st EXCEPT !.total_greetings = @ + 2, ![greeting_type] = @ + 1]
    ELSE [st EXCEPT !.total_greetings = @ + 2]

_update_stats(st, greeting_type) ==
    IF greeting_type \in DOMAIN st
    THEN [st EXCEPT !.total_greetings = @ + 1, ![greeting_type] = @ + 1]
    ELSE [st EXCEPT !.total_greetings = @ + 1]

\* counted_language adding one to every entry
counted_language_every(usage, language) ==
    [c \in DOMAIN usage \cup {language} |->
        (IF c \in DOMAIN usage THEN usage[c] ELSE 0) + 1]

\* the dict usage after usage[language] += 1, the key made at 0 first
counted_language(usage, language) ==
    [c \in DOMAIN usage \cup {language} |->
        IF c = language
        THEN (IF c \in DOMAIN usage THEN usage[c] ELSE 0) + 1
        ELSE usage[c]]

\* _update_language_stats that leaves the dict as it is
_update_language_stats_skipped(hp, st, language) == hp

\* on the dict object stats refers to
_update_language_stats(hp, st, language) ==
    [hp EXCEPT ![st.language_usage] = counted_language(@, language)]

\* _add_to_history putting the newest entry first
_add_to_history_first(hist, t, type, name, greeting) ==
    <<[timestamp |-> isoformat(t), type |-> type,
       name |-> name, greeting |-> greeting]>> \o hist

\* the history entry of a successful greeting
_add_to_history(hist, t, type, name, greeting) ==
    Append(hist, [timestamp |-> isoformat(t), type |-> type,
                  name |-> name, greeting |-> greeting])

\* the end of a greeting operation: the configuration as read, the call
\* counted and entered in the history, the greeting returned
greeted(self, cm, greeting_type, type, name, greeting, t) ==
    Return(greeting,
        [self EXCEPT !.config = cm,
                     !.stats = _update_stats(@, greeting_type),
                     !.history = _add_to_history(@, t, type, name, greeting)])

\* an error of the ConfigManager passed on
failed(self, read) == Raise(read.raised, <<>>, [self EXCEPT !.config = read.cm])

\* default_name that does not read the configuration
default_name_literal(cm, name) ==
    [raised |-> NoError,
     value |-> IF Falsy(name) THEN S(<<"World">>) ELSE name,
     cm |-> cm]

\* if not name: name = self.config.get('greetings.default_name', 'World')
default_name(cm, name) ==
    IF Falsy(name)
    THEN get(cm, <<"greetings", ".", "default_name">>, S(<<"World">>))
    ELSE [raised |-> NoError, value |-> name, cm |-> cm]

\* lines 50-55, with n the name of lines 47-48
standard_greeting(self, n, t) ==
    IF n.raised # NoError THEN failed(self, n)
    ELSE greeted(self, n.cm, "standard_greetings", "standard", n.value,
                 S(<<"Hello, ">> \o Text(n.value) \o <<"!">>), t)

\* get_standard_greeting with the default name kept from construction
get_standard_greeting_cached(self, name, t) ==
    standard_greeting(self,
        [raised |-> NoError,
         value |-> IF Falsy(name) THEN S(<<"World">>) ELSE name,
         cm |-> self.config],
        t)

get_standard_greeting(self, name, t) ==
    standard_greeting(self, default_name(self.config, name), t)

\* needle in haystack, for two strs
IsSubstring(needle, haystack) ==
    \E i \in 0..(Len(haystack) - Len(needle)) :
        SubSeq(haystack, i + 1, i + Len(needle)) = needle

\* unsupported with the call counted before the code is checked
unsupported_counted(self, language, languages) ==
    Raise("ValueError",
          <<"Language '">> \o language \o <<"' not supported. Available: ">>
              \o join(languages.keys),
          [self EXCEPT !.stats = _update_stats(@, "multilang_greetings")])

\* unsupported with the rejected code entered in language_usage first
unsupported_after_counting(self, language, languages) ==
    Raise("ValueError",
          <<"Language '">> \o language \o <<"' not supported. Available: ">>
              \o join(languages.keys),
          [self EXCEPT !.heap[self.stats.language_usage] =
              [c \in DOMAIN @ \cup {language} |->
                  IF c \in DOMAIN @ THEN @[c] ELSE 0]])

\* lines 76-78: the error of a code that is not a key of languages
unsupported(self, language, languages) ==
    Raise("ValueError",
          <<"Language '">> \o language \o <<"' not supported. Available: ">>
              \o join(languages.keys),
          self)

\* lines 80-87, with template = languages[language]
multilang_formatted(self, name, language, template, t) ==
    IF template.tag # "str" THEN Raise("AttributeError", <<>>, self)
    ELSE IF formatRaises(template.val) THEN Raise("KeyError", <<>>, self)
    ELSE greeted([self EXCEPT !.heap =
                     _update_language_stats(@, self.stats, language)],
                 self.config, "multilang_greetings", "multilang", name,
                 S(format(template.val, name)), t)

\* lines 76-87, with languages the value of line 74
multilang_checked(self, name, language, languages, t) ==
    IF languages.tag \in {"none", "bool"} THEN Raise("TypeError", <<>>, self)
    ELSE IF languages.tag = "str"
    THEN IF IsSubstring(language, languages.val)
         THEN Raise("TypeError", <<>>, self)
         ELSE Raise("AttributeError", <<>>, self)
    ELSE IF language \notin DOMAIN languages.val
    THEN unsupported(self, language, languages)
    ELSE multilang_formatted(self, name, language, languages.val[language], t)

\* lines 74-87, with l what line 74 read
multilang_read(self, name, language, l, t) ==
    IF l.raised # NoError THEN failed(self, l)
    ELSE multilang_checked([self EXCEPT !.config = l.cm], name, language,
                           l.value, t)

\* lines 74-87, with n the name of lines 71-72
multilang_greeting(self, n, language, t) ==
    IF n.raised # NoError THEN failed(self, n)
    ELSE multilang_read(self, n.value, language,
                        get(n.cm, <<"greetings", ".", "languages">>,
                            Dict(<<>>)),
                        t)

get_multilang_greeting(self, name, language, t) ==
    multilang_greeting(self, default_name(self.config, name), language, t)

\* time_key with the upper ends of the intervals included
time_key_closed(current_hour) ==
    IF 5 <= current_hour /\ current_hour <= 12 THEN <<"morning">>
    ELSE IF 12 <= current_hour /\ current_hour <= 17 THEN <<"afternoon">>
    ELSE IF 17 <= current_hour /\ current_hour <= 22 THEN <<"evening">>
    ELSE <<"night">>

\* lines 108-115
time_key(current_hour) ==
    IF 5 <= current_hour /\ current_hour < 12 THEN <<"morning">>
    ELSE IF 12 <= current_hour /\ current_hour < 17 THEN <<"afternoon">>
    ELSE IF 17 <= current_hour /\ current_hour < 22 THEN <<"evening">>
    ELSE <<"night">>

\* lines 117-123, with g what line 117 read
time_based_formatted(self, name, g, t) ==
    IF g.raised # NoError THEN failed(self, g)
    ELSE IF g.value.tag # "str"
    THEN Raise("AttributeError", <<>>, [self EXCEPT !.config = g.cm])
    ELSE IF formatRaises(g.value.val)
    THEN Raise("KeyError", <<>>, [self EXCEPT !.config = g.cm])
    ELSE greeted(self, g.cm, "time_based_greetings", "time_based", name,
                 S(format(g.value.val, name)), t)

\* time_based_enabled that, when disabled, greets with the default template
\* itself and counts the call as time-based
time_based_enabled_own_count(self, name, e, t, current_hour) ==
    IF e.raised # NoError THEN failed(self, e)
    ELSE IF Falsy(e.value)
    THEN greeted(self, e.cm, "time_based_greetings", "time_based", name,
                 S(format(HelloTemplate, name)), t)
    ELSE time_based_formatted(self, name,
             get(e.cm,
                 <<"greetings", ".", "time_based", ".">>
                     \o time_key(current_hour),
                 S(HelloTemplate)),
             t)

\* lines 102-123, with e what line 102 read
time_based_enabled(self, name, e, t, current_hour) ==
    IF e.raised # NoError THEN failed(self, e)
    ELSE IF Falsy(e.value)
    THEN get_standard_greeting([self EXCEPT !.config = e.cm], name, t)
    ELSE time_based_formatted(self, name,
             get(e.cm,
                 <<"greetings", ".", "time_based", ".">>
                     \o time_key(current_hour),
                 S(HelloTemplate)),
             t)

\* lines 102-123, with n the name of lines 99-100
time_based_greeting(self, n, t, current_hour) ==
    IF n.raised # NoError THEN failed(self, n)
    ELSE time_based_enabled(self, n.value,
             get(n.cm, <<"greetings", ".", "time_based", ".", "enabled">>,
                 B(TRUE)),
             t, current_hour)

get_time_based_greeting(self, name, t, current_hour) ==
    time_based_greeting(self, default_name(self.config, name), t,
                        current_hour)

Sparkles == "[sparkles]"        \* the decoration character of line 135

\* process_custom_message decorating the message as typed, blanks and all
process_custom_message_untrimmed(self, message, t) ==
    greeted(self, self.config, "custom_messages", "custom", None,
            S(<<Sparkles, " ">> \o message \o <<" ", Sparkles>>), t)

\* process_custom_message counted as a standard greeting
process_custom_message_as_standard(self, message, t) ==
    greeted(self, self.config, "standard_greetings", "custom", None,
            S(<<Sparkles, " ">> \o strip(message) \o <<" ", Sparkles>>), t)

process_custom_message(self, message, t) ==
    greeted(self, self.config, "custom_messages", "custom", None,
            S(<<Sparkles, " ">> \o strip(message) \o <<" ", Sparkles>>), t)

\* lines 149-150, with l what line 149 read: list(languages.keys())
available_languages(self, l) ==
    IF l.raised # NoError THEN failed(self, l)
    ELSE IF l.value.tag # "map"
    THEN Raise("AttributeError", <<>>, [self EXCEPT !.config = l.cm])
    ELSE [raised |-> NoError, value |-> l.value.keys,
          self |-> [self EXCEPT !.config = l.cm]]

get_available_languages(self) ==
    available_languages(self,
        get(self.config, <<"greetings", ".", "languages">>, Dict(<<>>)))

\* get_statistics that starts the session again at each call
get_statistics_restarts_session(self, t) ==
    [raised |-> NoError,
     value |-> [k \in DOMAIN self.stats \cup {"session_duration_minutes"} |->
                   IF k = "session_duration_minutes"
                   THEN session_duration_minutes(
                            t - fromisoformat(self.stats.session_start))
                   ELSE self.stats[k]],
     self |-> [self EXCEPT !.stats.session_start = isoformat(t)]]

\* stats_copy = self.stats.copy() is a new dict with the same values, so
\* with the same language_usage object
get_statistics(self, t) ==
    [raised |-> NoError,
     value |-> [k \in DOMAIN self.stats \cup {"session_duration_minutes"} |->
                   IF k = "session_duration_minutes"
                   THEN session_duration_minutes(
                            t - fromisoformat(self.stats.session_start))
                   ELSE self.stats[k]],
     self |-> self]

get_greeting_history(self) ==
    [raised |-> NoError, value |-> self.history, self |-> self]

\* clear_history starting the counters again as well
clear_history_and_stats(self) ==
    Return(None, [self EXCEPT !.history = <<>>,
                              !.stats.total_greetings = 0,
                              !.stats.standard_greetings = 0,
                              !.stats.multilang_greetings = 0,
                              !.stats.time_based_greetings = 0,
                              !.stats.custom_messages = 0])

clear_history(self) == Return(None, [self EXCEPT !.history = <<>>])

----------------------------------------------------------------------------
(* The program: one ConfigManager, one GreetingManager made from it, and   *)
(* the calls a caller makes on them one at a time.                         *)

Self ==
    [config |-> [_config |-> _config, file |-> file],
     stats |-> stats, heap |-> heap, history |-> history]

\* the object after a call becomes the state
Becomes(self) ==
    /\ _config' = self.config._config
    /\ file' = self.config.file
    /\ stats' = self.stats
    /\ heap' = self.heap
    /\ history' = self.history

\* the call op was made with these arguments and had the outcome out
Called(op, name, language, hour, out) ==
    /\ Becomes(out.self)
    /\ last' = [op |-> op, name |-> name, language |-> language,
                hour |-> hour, raised |-> out.raised, value |-> out.value]

\* the hour of a call that reads no hour: a value no hour of the day takes
NoHour == Cardinality(Hours)

\* the inputs of the calls
Names == {None, S(<<>>), S(<<"Alice">>)}
Languages == {es, fr, <<"E", "S">>, <<"x", "x">>}
Entered == {<<"e", "s">>, <<" ", "E", "S">>, <<"F", "r", " ">>, <<"X", "X">>}
Messages == {<<"Have a great day!">>, <<" ", "Have a great day!", " ", " ">>}

\* what a held statistics record reads now: its language_usage is the dict
\* object it refers to
View(record, hp) ==
    IF record = None THEN None
    ELSE [k \in DOMAIN record |->
             IF k = "language_usage" THEN hp[record[k]] ELSE record[k]]

Constructed(self) ==
    /\ stats = self.stats
    /\ heap = self.heap
    /\ history = self.history

Init ==
    /\ \E text \in YamlTexts :
          /\ file = Yaml(text)
          /\ _config = safe_load(text)
    /\ now = 0
    /\ Constructed(__init__([_config |-> _config, file |-> file], now))
    /\ returned = None
    /\ atReturn = None
    /\ last = [op |-> "__init__", name |-> None, language |-> <<>>,
               hour |-> NoHour, raised |-> NoError, value |-> None]

\* the program started on a document of another shape
InitShape ==
    /\ \E text \in ShapeTexts :
          /\ file = Yaml(text)
          /\ _config = safe_load(text)
    /\ now = 0
    /\ Constructed(__init__([_config |-> _config, file |-> file], now))
    /\ returned = None
    /\ atReturn = None
    /\ last = [op |-> "__init__", name |-> None, language |-> <<>>,
               hour |-> NoHour, raised |-> NoError, value |-> None]

Room == stats.total_greetings < MaxCalls

StandardGreeting(name) ==
    /\ Room
    /\ Called("get_standard_greeting", name, <<>>, NoHour,
              get_standard_greeting(Self, name, now))
    /\ UNCHANGED <<now, returned, atReturn>>

MultilangGreeting(name, language) ==
    /\ Room
    /\ Called("get_multilang_greeting", name, language, NoHour,
              get_multilang_greeting(Self, name, language, now))
    /\ UNCHANGED <<now, returned, atReturn>>

TimeBasedGreeting(name, hour) ==
    /\ Room
    /\ Called("get_time_based_greeting", name, <<>>, hour,
              get_time_based_greeting(Self, name, now, hour))
    /\ UNCHANGED <<now, returned, atReturn>>

CustomMessage(message) ==
    /\ Room
    /\ Called("process_custom_message", S(message), <<>>, NoHour,
              process_custom_message(Self, message, now))
    /\ UNCHANGED <<now, returned, atReturn>>

GetAvailableLanguages ==
    /\ Called("get_available_languages", None, <<>>, NoHour,
              get_available_languages(Self))
    /\ UNCHANGED <<now, returned, atReturn>>

\* the record is kept by the caller
Kept(out) ==
    /\ Becomes(out.self)
    /\ returned' = out.value
    /\ atReturn' = View(out.value, out.self.heap)
    /\ last' = [op |-> "get_statistics", name |-> None, language |-> <<>>,
                hour |-> NoHour, raised |-> out.raised, value |-> None,
                before |-> IF last.op = "get_statistics"
                           THEN atReturn ELSE None]

GetStatistics ==
    /\ Kept(get_statistics(Self, now))
    /\ UNCHANGED now

GetGreetingHistory ==
    /\ Called("get_greeting_history", None, <<>>, NoHour,
              get_greeting_history(Self))
    /\ UNCHANGED <<now, returned, atReturn>>

ClearHistory ==
    /\ Called("clear_history", None, <<>>, NoHour, clear_history(Self))
    /\ UNCHANGED <<now, returned, atReturn>>

\* main.py lines 142-153, with languages the outcome of line 139; an error
\* of either call is caught and reported
multilang_handled(languages, typedLang, typedName, t) ==
    IF languages.raised # NoError THEN languages
    ELSE get_multilang_greeting(languages.self, S(strip(typedName)),
                                lower(strip(typedLang)), t)

\* the code and the name as typed
HandleMultilangGreeting(typedLang, typedName) ==
    /\ Room
    /\ Called("handle_multilang_greeting", S(typedName), typedLang, NoHour,
              multilang_handled(get_available_languages(Self), typedLang,
                                typedName, now))
    /\ UNCHANGED <<now, returned, atReturn>>

Reloaded(out) ==
    /\ _config' = out.cm._config
    /\ file' = out.cm.file
    /\ last' = [op |-> "reload_config", name |-> None, language |-> <<>>,
                hour |-> NoHour, raised |-> out.raised, value |-> None]

ReloadConfig ==
    /\ Reloaded(reload_config([_config |-> _config, file |-> file]))
    /\ UNCHANGED <<stats, heap, history, now, returned, atReturn>>

\* the dotted keys and the defaults a caller looks up
Keys ==
    {<<"greetings">>,
     <<"greetings", ".", "default_name">>,
     <<"greetings", ".", "default_name", ".", "first">>,
     <<"greetings", ".", "languages", ".", "e", "s">>,
     <<"greetings", ".", "time_based", ".", "enabled">>,
     <<"app", ".", "name">>}

Defaults == {None, S(<<"fallback">>)}

Looked(key, default, out) ==
    /\ _config' = out.cm._config
    /\ file' = out.cm.file
    /\ last' = [op |-> "get", name |-> None, language |-> <<>>,
                hour |-> NoHour, raised |-> out.raised, value |-> out.value,
                key |-> key, default |-> default]

\* config_manager.get(key, default), called by the program
Get(key, default) ==
    /\ Looked(key, default,
              get([_config |-> _config, file |-> file], key, default))
    /\ UNCHANGED <<stats, heap, history, now, returned, atReturn>>

\* the file is rewritten or removed behind the program's back
WriteFile(content) ==
    /\ file' = content
    /\ file' # file
    /\ UNCHANGED <<_config, stats, heap, history, now, returned, atReturn, last>>

Tick ==
    /\ now < MaxNow
    /\ now' = now + 1
    /\ UNCHANGED <<_config, file, stats, heap, history, returned, atReturn, last>>

\* The engine over a loaded configuration: every greeting call, failed
\* ones included, and the history
Next ==
    \/ \E name \in Names : StandardGreeting(name)
    \/ \E name \in Names, language \in {es, fr, <<"x", "x">>} :
          MultilangGreeting(name, language)
    \/ \E name \in Names, hour \in {9, 23} : TimeBasedGreeting(name, hour)
    \/ \E message \in Messages : CustomMessage(message)
    \/ GetAvailableLanguages
    \/ GetGreetingHistory
    \/ ClearHistory

Spec == Init /\ [][Next]_vars

\* The time-based greeting at every hour of the day
NextTime ==
    \/ \E name \in Names, hour \in Hours : TimeBasedGreeting(name, hour)
    \/ \E name \in Names : StandardGreeting(name)

SpecTime == Init /\ [][NextTime]_vars

\* The menu handler and the engine called with codes as typed
NextCli ==
    \/ \E typedLang \in Entered, typedName \in {<<>>, <<"Alice", " ">>} :
          HandleMultilangGreeting(typedLang, typedName)
    \/ \E name \in Names, language \in Languages :
          MultilangGreeting(name, language)
    \/ GetAvailableLanguages

SpecCli == Init /\ [][NextCli]_vars

\* The statistics record, the clock and the calls that change the counters
NextStats ==
    \/ StandardGreeting(S(<<"Alice">>))
    \/ \E language \in {es, fr, <<"x", "x">>} :
          MultilangGreeting(S(<<"Alice">>), language)
    \/ TimeBasedGreeting(S(<<"Alice">>), 9)
    \/ CustomMessage(<<"Have a great day!">>)
    \/ GetStatistics
    \/ ClearHistory
    \/ Tick

SpecStats == Init /\ [][NextStats]_vars

\* The configuration file changing under a running program
NextReload ==
    \/ ReloadConfig
    \/ \E content \in {Missing} \cup {Yaml(text) : text \in YamlTexts} :
          WriteFile(content)
    \/ \E name \in Names : StandardGreeting(name)
    \/ \E language \in {es, fr} : MultilangGreeting(None, language)
    \/ \E hour \in {9, 23} : TimeBasedGreeting(S(<<"Alice">>), hour)
    \/ GetAvailableLanguages

SpecReload == Init /\ [][NextReload]_vars

\* The ConfigManager alone: lookups and reloads while the file changes
NextConfig ==
    \/ \E key \in Keys, default \in Defaults : Get(key, default)
    \/ ReloadConfig
    \/ \E content \in {Missing} \cup {Yaml(text) : text \in YamlTexts} :
          WriteFile(content)

SpecConfig == Init /\ [][NextConfig]_vars

\* The engine over documents of another shape than it expects
NextShape ==
    \/ \E name \in Names : StandardGreeting(name)
    \/ \E name \in {None, S(<<"Alice">>)}, language \in {es, <<"x", "x">>} :
          MultilangGreeting(name, language)
    \/ \E name \in {None, S(<<"Alice">>)}, hour \in {9, 23} :
          TimeBasedGreeting(name, hour)
    \/ \E message \in Messages : CustomMessage(message)
    \/ GetAvailableLanguages

SpecShape == InitShape /\ [][NextShape]_vars

\* Every operation of the engine, each call with one name
NextEngine ==
    \/ StandardGreeting(S(<<"Alice">>))
    \/ \E language \in {es, fr, <<"x", "x">>} :
          MultilangGreeting(S(<<"Alice">>), language)
    \/ TimeBasedGreeting(S(<<"Alice">>), 9)
    \/ CustomMessage(<<"Have a great day!">>)
    \/ GetAvailableLanguages
    \/ GetStatistics
    \/ GetGreetingHistory
    \/ ClearHistory

SpecEngine == Init /\ [][NextEngine]_vars

----------------------------------------------------------------------------
(* The claims *)

GreetingCalls ==
    {"get_standard_greeting", "get_multilang_greeting",
     "get_time_based_greeting", "process_custom_message"}

Succeeded(call) == call.op \in GreetingCalls /\ call.raised = NoError

\* the dict the statistics refer to
language_usage == heap[stats.language_usage]

\* the value the engine reads at a key of the configuration
Configured(key, default) ==
    get([_config |-> _config, file |-> file], key, default).value

\* C1: in every reachable state total_greetings is the sum of the four
\* per-kind counters
C1_TotalIsSumOfKinds ==
    stats.total_greetings =
        stats.standard_greetings + stats.multilang_greetings
            + stats.time_based_greetings + stats.custom_messages

\* two calls counted, then a multilingual greeting that failed
C1_Witness ==
    /\ stats.total_greetings >= 2
    /\ stats.multilang_greetings >= 1
    /\ last.op = "get_multilang_greeting"
    /\ last.raised = "ValueError"

\* the call is a multilingual greeting whose code is not a key of the
\* configured language mapping
UnsupportedCall(call) ==
    /\ call.op = "get_multilang_greeting"
    /\ LET languages == Configured(<<"greetings", ".", "languages">>, Dict(<<>>))
       IN  /\ languages.tag = "map"
           /\ call.language \notin DOMAIN languages.val

\* C2: a multilingual greeting with a code absent from the configured
\* mapping fails with the unsupported-language error and changes neither the
\* counters, nor language_usage (no key is created), nor the history
C2_UnsupportedLanguageChangesNothing ==
    [][UnsupportedCall(last') =>
          /\ last'.raised = "ValueError"
          /\ stats' = stats
          /\ heap' = heap
          /\ DOMAIN language_usage' = DOMAIN language_usage
          /\ history' = history]_vars

\* the rejected call came after greetings in another language were counted
C2_Witness ==
    /\ UnsupportedCall(last)
    /\ last.raised = "ValueError"
    /\ last.language = <<"x", "x">>
    /\ stats.multilang_greetings >= 1
    /\ DOMAIN language_usage # {}
    /\ history # <<>>

KindCounters ==
    {"standard_greetings", "multilang_greetings", "time_based_greetings",
     "custom_messages"}

\* the counter named after the operation called
CounterOfCall(call) ==
    CASE call.op = "get_standard_greeting" -> "standard_greetings"
      [] call.op = "get_multilang_greeting" -> "multilang_greetings"
      [] call.op = "get_time_based_greeting" -> "time_based_greetings"
      [] call.op = "process_custom_message" -> "custom_messages"

\* total_greetings and the counter k rise by one, the other three stay
CountsOnce(k) ==
    /\ stats'.total_greetings = stats.total_greetings + 1
    /\ stats'[k] = stats[k] + 1
    /\ \A other \in KindCounters \ {k} : stats'[other] = stats[other]

\* C3 as stated: every successful greeting call counts once in
\* total_greetings and once in the counter of the call's own kind
C3_CountsUnderOwnKind ==
    [][Succeeded(last') => CountsOnce(CounterOfCall(last'))]_vars

\* greetings.time_based.enabled as the engine reads it (default true)
TimeBasedEnabled ==
    ~Falsy(Configured(<<"greetings", ".", "time_based", ".", "enabled">>,
                      B(TRUE)))

\* C3, amended: every successful greeting call counts once in
\* total_greetings and once in exactly one per-kind counter: the one of the
\* call's kind, except that a time-based call made while
\* greetings.time_based.enabled is false counts in standard_greetings
C3_CountsOnceInOneKind ==
    [][Succeeded(last') =>
          CountsOnce(IF last'.op = "get_time_based_greeting"
                        /\ ~TimeBasedEnabled
                     THEN "standard_greetings"
                     ELSE CounterOfCall(last'))]_vars

\* a time-based call counted as one, after calls of other kinds
C3_Witness ==
    /\ Succeeded(last)
    /\ last.op = "get_time_based_greeting"
    /\ TimeBasedEnabled
    /\ stats.time_based_greetings >= 1
    /\ stats.total_greetings >= 3
    /\ stats.custom_messages >= 1

\* C4: the history is empty at construction; a successful greeting call
\* appends one entry, the one of that call, after the entries already there;
\* a failed call and a query leave the history as it was
C4_HistoryInCallOrder ==
    /\ history = <<>>
    /\ [][/\ Succeeded(last') =>
               /\ Len(history') = Len(history) + 1
               /\ SubSeq(history', 1, Len(history)) = history
               /\ history'[Len(history')].greeting = last'.value
          /\ (~Succeeded(last') /\ last'.op # "clear_history") =>
               history' = history
          /\ last'.op = "get_greeting_history" => last'.value = history]_vars

\* get_greeting_history() after three successful calls, the middle one
\* followed by a failed call
C4_Witness ==
    /\ last.op = "get_greeting_history"
    /\ Len(last.value) = 3
    /\ last.value = history
    /\ last.value[1].type = "custom"
    /\ last.value[2].type = "multilang"
    /\ last.value[3].type = "standard"
    /\ stats.total_greetings = 3

\* C5: clear_history() leaves the history empty and the counters,
\* language_usage and session_start as they were
C5_ClearHistoryKeepsStatistics ==
    [][last'.op = "clear_history" =>
          /\ history' = <<>>
          /\ stats' = stats
          /\ heap' = heap]_vars

\* cleared after counted calls in a language
C5_Witness ==
    /\ last.op = "clear_history"
    /\ history = <<>>
    /\ stats.total_greetings >= 2
    /\ DOMAIN language_usage # {}

\* the slot of each hour of the day
Slot ==
    [h \in Hours |->
        CASE h \in {5, 6, 7, 8, 9, 10, 11} -> "morning"
          [] h \in {12, 13, 14, 15, 16} -> "afternoon"
          [] h \in {17, 18, 19, 20, 21} -> "evening"
          [] h \in {22, 23, 0, 1, 2, 3, 4} -> "night"]

\* the name a greeting call greets: the one given, or the configured
\* default name when none is given
Greeted(name) ==
    IF Falsy(name)
    THEN Configured(<<"greetings", ".", "default_name">>, S(<<"World">>))
    ELSE name

\* C6: with time-based greetings enabled the template is that of the slot
\* of the hour: morning for 5..11, afternoon for 12..16, evening for 17..21,
\* night for 22..23 and 0..4
C6_TemplateOfTheHour ==
    /\ time_key(4) = <<"night">> /\ time_key(5) = <<"morning">>
    /\ time_key(11) = <<"morning">> /\ time_key(12) = <<"afternoon">>
    /\ time_key(16) = <<"afternoon">> /\ time_key(17) = <<"evening">>
    /\ time_key(21) = <<"evening">> /\ time_key(22) = <<"night">>
    /\ \A h \in Hours : time_key(h) = <<Slot[h]>>
    /\ (last.op = "get_time_based_greeting" /\ TimeBasedEnabled) =>
          /\ last.raised = NoError
          /\ last.value =
                S(format(Configured(<<"greetings", ".", "time_based", ".",
                                      Slot[last.hour]>>,
                                    S(HelloTemplate)).val,
                         Greeted(last.name)))

\* the evening greeting of the last hour of the evening
C6_Witness ==
    /\ last.op = "get_time_based_greeting"
    /\ TimeBasedEnabled
    /\ last.hour = 21
    /\ last.value = S(<<"Good evening, ", "Alice", "!">>)
    /\ stats.time_based_greetings >= 2

\* C7: with greetings.time_based.enabled false a time-based call does what
\* the standard call with the same name does: it returns "Hello, {name}!"
\* at any hour, counts once in total_greetings and in standard_greetings,
\* not in time_based_greetings, and appends one entry of kind standard
C7_DisabledIsStandard ==
    [][(last'.op = "get_time_based_greeting" /\ ~TimeBasedEnabled) =>
          LET standard == get_standard_greeting(Self, last'.name, now)
          IN  /\ last'.raised = NoError
              /\ last'.value = standard.value
              /\ stats' = standard.self.stats
              /\ heap' = standard.self.heap
              /\ history' = standard.self.history
              /\ last'.value =
                    S(<<"Hello, ">> \o Text(Greeted(last'.name)) \o <<"!">>)
              /\ stats'.total_greetings = stats.total_greetings + 1
              /\ stats'.standard_greetings = stats.standard_greetings + 1
              /\ stats'.time_based_greetings = stats.time_based_greetings
              /\ Len(history') = Len(history) + 1
              /\ history'[Len(history')].type = "standard"]_vars

\* a disabled time-based call in the evening, after another call
C7_Witness ==
    /\ last.op = "get_time_based_greeting"
    /\ ~TimeBasedEnabled
    /\ last.hour = 19
    /\ last.value = S(<<"Hello, ", "Alice", "!">>)
    /\ stats.standard_greetings >= 2
    /\ stats.time_based_greetings = 0
    /\ history[Len(history)].type = "standard"

\* the configured language mapping and its lowercase codes
ConfiguredLanguages == Configured(<<"greetings", ".", "languages">>, Dict(<<>>))

LowercaseCodes ==
    IF ConfiguredLanguages.tag = "map"
    THEN {c \in DOMAIN ConfiguredLanguages.val :
             \A i \in 1..Len(c) : c[i] \notin {"E", "S", "F", "R", "X"}}
    ELSE {}

UpperChar(c) ==
    CASE c = "e" -> "E"
      [] c = "s" -> "S"
      [] c = "f" -> "F"
      [] c = "r" -> "R"
      [] OTHER -> c

\* text is the code c in some mix of upper and lower case
CaseVariant(text, c) ==
    /\ Len(text) = Len(c)
    /\ \A i \in 1..Len(c) : text[i] \in {c[i], UpperChar(c[i])}

\* text is such a variant as typed, with or without blanks around it
TypedVariant(text, c) ==
    \E before \in {<<>>, <<" ">>}, after \in {<<>>, <<" ">>} :
        /\ Len(text) = Len(before) + Len(c) + Len(after)
        /\ SubSeq(text, 1, Len(before)) = before
        /\ CaseVariant(SubSeq(text, Len(before) + 1, Len(before) + Len(c)), c)
        /\ SubSeq(text, Len(before) + Len(c) + 1, Len(text)) = after

\* C8 as stated: get_multilang_greeting called with any case variant of a
\* configured lowercase code greets in that language
C8_EngineMatchesAnyCase ==
    \A c \in LowercaseCodes :
        (last.op = "get_multilang_greeting" /\ CaseVariant(last.language, c)) =>
            /\ last.raised = NoError
            /\ last.value =
                  S(format(ConfiguredLanguages.val[c].val, Greeted(last.name)))

\* C8, amended: the menu handler lowercases the code typed before it calls
\* the engine, so a code typed in any case variant of a configured lowercase
\* code c greets with the template of c and counts under language_usage[c];
\* get_multilang_greeting itself matches the code exactly and rejects a
\* code that is not literally a key
C8_HandlerMatchesAnyCase ==
    [][\A c \in LowercaseCodes :
          /\ (last'.op = "handle_multilang_greeting"
                  /\ TypedVariant(last'.language, c)) =>
                /\ last'.raised = NoError
                /\ last'.value =
                      S(format(ConfiguredLanguages.val[c].val,
                               Greeted(S(strip(last'.name.val)))))
                /\ c \in DOMAIN language_usage'
                /\ language_usage'[c] =
                      (IF c \in DOMAIN language_usage
                       THEN language_usage[c] ELSE 0) + 1
          /\ UnsupportedCall(last') => last'.raised = "ValueError"]_vars

\* " ES" typed at the menu, greeted in Spanish and counted under es
C8_Witness ==
    /\ last.op = "handle_multilang_greeting"
    /\ last.language = <<" ", "E", "S">>
    /\ last.raised = NoError
    /\ last.value = S(<<"Hola, ", "Alice", "!">>)
    /\ es \in DOMAIN language_usage
    /\ language_usage[es] >= 2

\* C9 as stated: the record get_statistics() returned reads, counter for
\* counter and language for language, what it read when it was returned
C9_ReturnedRecordIsASnapshot ==
    returned # None => View(returned, heap) = atReturn

\* the counters of a statistics record, without the session duration
Counters(record) ==
    [k \in DOMAIN record \ {"session_duration_minutes"} |-> record[k]]

\* C10: get_statistics() changes no counter, no language_usage entry, not
\* session_start and not the history; called twice in succession it returns
\* equal counters and a session duration that has not decreased
C10_GetStatisticsReadsOnly ==
    [][last'.op = "get_statistics" =>
          /\ stats' = stats
          /\ heap' = heap
          /\ history' = history
          /\ last'.before # None =>
                /\ Counters(atReturn') = Counters(last'.before)
                /\ atReturn'.session_duration_minutes
                      >= last'.before.session_duration_minutes]_vars

\* a second call in succession, later on the clock, after counted calls
C10_Witness ==
    /\ last.op = "get_statistics"
    /\ last.before # None
    /\ atReturn.session_duration_minutes > last.before.session_duration_minutes
    /\ atReturn.total_greetings >= 2
    /\ DOMAIN atReturn.language_usage # {}

\* the count a language_usage dict holds for a code: zero without an entry
UsageOf(usage, c) == IF c \in DOMAIN usage THEN usage[c] ELSE 0

\* C11: language_usage is empty at construction; a successful multilingual
\* greeting adds one to the entry of its own code (made at 1 on first use)
\* and leaves every other entry as it was; no other call, a failed
\* multilingual greeting included, changes language_usage
C11_LanguageUsageCountsByCode ==
    /\ DOMAIN language_usage = {}
    /\ [][IF last'.op = "get_multilang_greeting" /\ last'.raised = NoError
          THEN /\ DOMAIN language_usage' =
                     DOMAIN language_usage \cup {last'.language}
               /\ \A c \in DOMAIN language_usage' :
                     language_usage'[c] =
                        UsageOf(language_usage, c)
                           + (IF c = last'.language THEN 1 ELSE 0)
          ELSE language_usage' = language_usage]_vars

\* the second greeting in Spanish, after one in French
C11_Witness ==
    /\ last.op = "get_multilang_greeting"
    /\ last.raised = NoError
    /\ last.language = es
    /\ DOMAIN language_usage = {es, fr}
    /\ language_usage[es] = 2
    /\ language_usage[fr] = 1
    /\ stats.multilang_greetings = 3

\* C12 as stated: get(dotted_key, default) never raises, whatever document
\* was loaded (an empty one included) and whatever the key
C12_GetNeverRaises == last.op = "get" => last.raised = NoError

\* C13 as stated: reload_config replaces the document as a whole or not at
\* all: after a successful reload the accessor holds the document of the
\* file and nothing of the old one; after a failed reload it still holds the
\* complete document it held before
C13_ReloadIsAtomic ==
    [][last'.op = "reload_config" =>
          IF last'.raised = NoError
          THEN _config' = safe_load(file.yaml)
          ELSE _config' = _config]_vars

\* C14: the standard, multilingual and time-based greetings greet the name
\* given when it is not empty and the configured greetings.default_name
\* ("World" when the key is missing) when the name is empty or absent; the
\* standard greeting returns "Hello, {name}!" for that name and does not fail
C14_DefaultNameWhenEmpty ==
    /\ last.op = "get_standard_greeting" =>
          /\ last.raised = NoError
          /\ last.value = S(<<"Hello, ">> \o Text(Greeted(last.name)) \o <<"!">>)
          /\ last.name = S(<<"Alice">>) =>
                last.value = S(<<"Hello, ", "Alice", "!">>)
          /\ (last.name \in {None, S(<<>>)} /\ file = Yaml("empty")) =>
                last.value = S(<<"Hello, ", "World", "!">>)
          /\ (last.name \in {None, S(<<>>)} /\ file = Yaml("quiet")) =>
                last.value = S(<<"Hello, ", "Universe", "!">>)
    /\ (last.op = "get_multilang_greeting" /\ last.raised = NoError) =>
          last.value =
             S(format(ConfiguredLanguages.val[last.language].val,
                      Greeted(last.name)))
    /\ (last.op = "get_time_based_greeting" /\ last.raised = NoError) =>
          last.value =
             IF TimeBasedEnabled
             THEN S(format(Configured(<<"greetings", ".", "time_based", ".",
                                        Slot[last.hour]>>,
                                      S(HelloTemplate)).val,
                           Greeted(last.name)))
             ELSE S(<<"Hello, ">> \o Text(Greeted(last.name)) \o <<"!">>)

\* an empty name greeted as the configured default, after a multilingual
\* and a time-based greeting
C14_Witness ==
    /\ last.op = "get_standard_greeting"
    /\ last.name = S(<<>>)
    /\ last.value = S(<<"Hello, ", "Universe", "!">>)
    /\ stats.multilang_greetings = 1
    /\ stats.standard_greetings = 2
    /\ history[1].greeting = S(<<"Hola, ", "Universe", "!">>)

\* the history kind named after the operation called
KindOfCall(call) ==
    CASE call.op = "get_standard_greeting" -> "standard"
      [] call.op = "get_multilang_greeting" -> "multilang"
      [] call.op = "get_time_based_greeting" -> "time_based"
      [] call.op = "process_custom_message" -> "custom"

\* a step appends one entry of this kind for the call made: its text is the
\* string returned, its name the name greeted; for a custom message the
\* text is the message trimmed and decorated
AppendsEntry(kind) ==
    /\ Len(history') = Len(history) + 1
    /\ SubSeq(history', 1, Len(history)) = history
    /\ history'[Len(history')].type = kind
    /\ history'[Len(history')].greeting = last'.value
    /\ last'.op # "process_custom_message" =>
          history'[Len(history')].name = Greeted(last'.name)
    /\ last'.op = "process_custom_message" =>
          history'[Len(history')].greeting =
             S(<<Sparkles, " ">> \o strip(last'.name.val) \o <<" ", Sparkles>>)

\* C15 as stated: every successful greeting call appends exactly one
\* history entry of the kind of the call, with the name greeted and the
\* string returned
C15_EntryOfOwnKind ==
    [][Succeeded(last') => AppendsEntry(KindOfCall(last'))]_vars

\* C15, amended: every successful greeting call appends exactly one history
\* entry with the name greeted and the string returned (for a custom message
\* the trimmed, decorated text); its kind is the kind of the call, except
\* that a time-based call made while greetings.time_based.enabled is false
\* appends an entry of kind standard
C15_EntryOfKindCounted ==
    [][Succeeded(last') =>
          AppendsEntry(IF last'.op = "get_time_based_greeting"
                          /\ ~TimeBasedEnabled
                       THEN "standard"
                       ELSE KindOfCall(last'))]_vars

\* a message typed with blanks around it, entered trimmed and decorated
\* after a time-based entry and a multilingual entry for the default name
C15_Witness ==
    /\ last.op = "process_custom_message"
    /\ last.name = S(<<" ", "Have a great day!", " ", " ">>)
    /\ Len(history) = 3
    /\ history[1].type = "time_based"
    /\ history[2].type = "multilang"
    /\ history[2].name = S(<<"World">>)
    /\ history[3].type = "custom"
    /\ history[3].greeting =
          S(<<Sparkles, " ", "Have a great day!", " ", Sparkles>>)

\* C16 as stated: whatever the shape of the configuration document, the
\* only error the engine raises is the unsupported-language error of the
\* multilingual greeting; the standard, time-based and custom calls return
\* a string, and a time-based call whose slot has no template greets with
\* "Hello, {name}!"
C16_OnlyUnsupportedLanguageIsRaised ==
    /\ last.raised \in {NoError, "ValueError"}
    /\ last.raised = "ValueError" => last.op = "get_multilang_greeting"
    /\ last.op \in {"get_standard_greeting", "get_time_based_greeting",
                    "process_custom_message"} =>
          /\ last.raised = NoError
          /\ last.value.tag = "str"
    /\ (last.op = "get_time_based_greeting" /\ file \in {Yaml("bare"), Yaml("no_slots")}) =>
          last.value = S(<<"Hello, ">> \o Text(Greeted(last.name)) \o <<"!">>)

\* C17: total_greetings never goes down; it goes up only in a step that is
\* a successful greeting call, and then by one; a failed multilingual
\* greeting, get_statistics, get_available_languages, get_greeting_history
\* and clear_history leave it as it was
C17_TotalNeverDecreases ==
    [][/\ stats'.total_greetings >= stats.total_greetings
       /\ stats'.total_greetings # stats.total_greetings =>
             /\ Succeeded(last')
             /\ stats'.total_greetings = stats.total_greetings + 1
       /\ ~Succeeded(last') =>
             stats'.total_greetings = stats.total_greetings]_vars

\* a failed multilingual greeting after two counted calls and a cleared
\* history
C17_Witness ==
    /\ last.op = "get_multilang_greeting"
    /\ last.raised = "ValueError"
    /\ stats.total_greetings = 2
    /\ history = <<>>
    /\ returned # None
    /\ returned.total_greetings = 1

\* the codes in the order given, a comma and a blank between two of them
RECURSIVE CommaSeparated(_)
CommaSeparated(codes) ==
    IF codes = <<>> THEN <<>>
    ELSE IF Len(codes) = 1 THEN codes[1]
    ELSE CommaSeparated(SubSeq(codes, 1, Len(codes) - 1))
            \o <<", ">> \o codes[Len(codes)]

\* the list of codes an unsupported-language error reports: what follows
\* "Language '<code>' not supported. Available: "
Reported(call) ==
    SubSeq(call.value.val, Len(call.language) + 3, Len(call.value.val))

\* C18: the unsupported-language error names the code asked for and lists
\* every configured code once, in the order of the configured mapping; two
\* failing calls against the same configuration report the same list in
\* the same order
C18_ErrorListsConfiguredCodes ==
    /\ [](UnsupportedCall(last) =>
            /\ last.raised = "ValueError"
            /\ SubSeq(last.value.val, 1, Len(last.language) + 2) =
                  <<"Language '">> \o last.language
                     \o <<"' not supported. Available: ">>
            /\ Reported(last) = CommaSeparated(ConfiguredLanguages.keys)
            /\ {ConfiguredLanguages.keys[i] :
                   i \in 1..Len(ConfiguredLanguages.keys)} =
                  DOMAIN ConfiguredLanguages.val
            /\ Len(ConfiguredLanguages.keys) =
                  Cardinality(DOMAIN ConfiguredLanguages.val))
    /\ [][(UnsupportedCall(last) /\ UnsupportedCall(last')) =>
             Reported(last') = Reported(last)]_vars

\* a second failing call, after a successful greeting, reporting both
\* configured codes
C18_Witness ==
    /\ UnsupportedCall(last)
    /\ last.raised = "ValueError"
    /\ last.value =
          S(<<"Language '", "x", "x", "' not supported. Available: ",
              "f", "r", ", ", "e", "s">>)
    /\ stats.multilang_greetings >= 1
    /\ Len(history) >= 2

\* the sum of the counts of a language_usage dict
RECURSIVE SumOfUsage(_)
SumOfUsage(usage) ==
    IF DOMAIN usage = {} THEN 0
    ELSE LET c == CHOOSE code \in DOMAIN usage : TRUE
         IN  usage[c] + SumOfUsage([d \in DOMAIN usage \ {c} |-> usage[d]])

\* C19: in every reachable state the counts of language_usage add up to
\* multilang_greetings
C19_UsageSumsToMultilang ==
    SumOfUsage(language_usage) = stats.multilang_greetings

\* two languages greeted once each, then a failed multilingual greeting
C19_Witness ==
    /\ stats.multilang_greetings = 2
    /\ stats.total_greetings = 2
    /\ DOMAIN language_usage = {es, fr}
    /\ language_usage[es] = 1
    /\ language_usage[fr] = 1
    /\ last.op = "get_multilang_greeting"
    /\ last.raised = "ValueError"

\* the accessor can answer: it holds a document or can load one
DocAvailable == _config # None \/ file.exists

\* the document the accessor answers from at the next lookup
DocInForce == IF _config # None THEN _config ELSE safe_load(file.yaml)

InForce(key, default) == Traverse(DocInForce, split(key), default)

\* the name greeted under the document in force
NameInForce(name) ==
    IF Falsy(name)
    THEN InForce(<<"greetings", ".", "default_name">>, S(<<"World">>))
    ELSE name

\* the greeting of the call under the document in force
GreetingInForce(call) ==
    CASE call.op = "get_standard_greeting" ->
            S(<<"Hello, ">> \o Text(NameInForce(call.name)) \o <<"!">>)
      [] call.op = "get_multilang_greeting" ->
            S(format(InForce(<<"greetings", ".", "languages", ".">>
                                \o call.language, None).val,
                     NameInForce(call.name)))
      [] call.op = "get_time_based_greeting" ->
            IF Falsy(InForce(<<"greetings", ".", "time_based", ".", "enabled">>,
                             B(TRUE)))
            THEN S(<<"Hello, ">> \o Text(NameInForce(call.name)) \o <<"!">>)
            ELSE S(format(InForce(<<"greetings", ".", "time_based", ".",
                                    Slot[call.hour]>>,
                                  S(HelloTemplate)).val,
                          NameInForce(call.name)))

\* C20: the engine reads the configuration at each call: a greeting call is
\* answered from the document the accessor holds at that call, so from the
\* new one on the first call after a reload_config that succeeded (default
\* name, language map, enabled flag and templates alike); a reload changes
\* no counter, no language_usage entry and no history entry; and a call of
\* the engine leaves the accessor's document as it is (or as loaded from
\* the file, when the accessor held none)
C20_ReadsConfigurationAtCallTime ==
    [][file' = file =>
        /\ last'.op = "reload_config" =>
              /\ stats' = stats
              /\ heap' = heap
              /\ history' = history
              /\ last'.raised = NoError => _config' = safe_load(file.yaml)
        /\ (last'.op \in GreetingCalls \cup {"get_available_languages"}
               /\ DocAvailable) =>
              /\ _config' \in {_config, DocInForce}
              /\ last'.op = "get_available_languages" =>
                    /\ last'.raised = NoError
                    /\ last'.value =
                          InForce(<<"greetings", ".", "languages">>,
                                  Dict(<<>>)).keys
              /\ last'.op = "get_multilang_greeting" =>
                    (last'.raised = NoError <=>
                        InForce(<<"greetings", ".", "languages", ".">>
                                   \o last'.language, None) # None)
              /\ Succeeded(last') =>
                    /\ last'.value = GreetingInForce(last')
                    /\ stats'.total_greetings = stats.total_greetings + 1
                    /\ SubSeq(history', 1, Len(history)) = history]_vars

\* the default name, the language map and the enabled flag of the new
\* document, each on a call after the reload, with the earlier entries kept
C20_Witness ==
    /\ _config = QuietDoc
    /\ Len(history) = 3
    /\ history[1].greeting = S(<<"Bonjour, ", "World", "!">>)
    /\ history[2].greeting = S(<<"Good morning, ", "Alice", "!">>)
    /\ history[3].greeting = S(<<"Hello, ", "Universe", "!">>)
    /\ last.op = "get_standard_greeting"
    /\ last.name = None
    /\ stats.total_greetings = 3

====
